---- MODULE Spec2Model ----
(***************************************************************************)
(* Model of the Firestore trigger handlers of functions/index.js           *)
(* (src/unnamed/part_000): onBloodRequestCreated with its helper           *)
(* findMatchingDonors, the ADK relevance-filter step and the dispatch      *)
(* step, and onMatchedDonorAdded.                                          *)
(*                                                                         *)
(* Strings that the code normalises or parses are sequences of one-        *)
(* character strings, so that trim(), toUpperCase() and JSON.parse() are   *)
(* computed.  Distances are in metres: geofire.distanceBetween returns     *)
(* kilometres, and  distance <= currentRadiusKm  is  distM <= 1000 * r.    *)
(***************************************************************************)
EXTENDS Integers, Sequences, FiniteSets, TLC

VARIABLES
    donors,                 \* collection "donors": doc id -> donor document
    users,                  \* collection "users": uid -> profile document
    providerExists,         \* healthcare_providers/{providerId} exists
    request,                \* the request document (event.data.data() + foundDonors)
    pc,                     \* position of the creation invocation
    currentRadiusKm,        \* findMatchingDonors: let currentRadiusKm
    matchingDonors,         \* findMatchingDonors: the Map matchingDonors
    expandedToMax,          \* findMatchingDonors: let expandedToMax
    targetDonorCount,       \* onBloodRequestCreated: const targetDonorCount
    filteredMatchingDonors, \* onBloodRequestCreated: let filteredMatchingDonors
    iterations,             \* history: number of while-loop passes run
    filterOutcome,          \* history: what the relevance-filter call produced
    pushes,                 \* multicast sends handed to the push gateway
    userMessages,           \* users/{uid}/messages documents added
    log,                    \* logger.error / logger.warn lines of the invocation
    evBefore,               \* update event: before.matchedDonors
    evAfter,                \* update event: after.matchedDonors
    newDonors,              \* onMatchedDonorAdded: newDonors still to be processed
    matches,                \* users/{uid}/matches/{requestId} documents set
    donorMessages,          \* donors/{uid}/messages documents added
    evWrite,                \* write event: whether the before / after snapshots exist
    deliveries,             \* history: deliveries of the event so far
    afterFirst,             \* history: the effects when the first delivery had ended
    hour,                   \* the hour of the wall clock, new Date().getHours()
    events,                 \* history: update events written to the request so far
    everAdded,              \* history: the ids some update event added to matchedDonors
    other                   \* a second invocation running beside the first: its locals

vars == << donors, users, providerExists, request, pc, currentRadiusKm,
           matchingDonors, expandedToMax, targetDonorCount,
           filteredMatchingDonors, iterations, filterOutcome,
           pushes, userMessages, log, evBefore, evAfter, newDonors, matches,
           donorMessages, evWrite, deliveries, afterFirst, hour, events,
           everAdded, other >>

----------------------------------------------------------------------------
(* Bounds of the model *)

\* longest id list the relevance filter's reply is drawn from
MaxReplyLen == 2

\* largest unitsRequested value of a creation event
MaxUnits == 4

\* longest matchedDonors list of an update event
MaxListLen == 2

\* longest foundDonors list of a deleted request
MaxFoundLen == 3

\* deliveries of one event
MaxDeliveries == 2

\* update events written to one request
MaxEvents == 3

----------------------------------------------------------------------------
(* Program constants of findMatchingDonors *)

\* the mutant: the first pass already covers two steps
startRadiusWide == 2 + 2

\* the mutant: the upper end of the clamp is one too high
maxTargetWide == 5 + 1

startRadiusKm == 2
maxRadiusKm == 50
stepKmSlow == 2 - 1
stepKm == 2
minTarget == 3
maxTarget == 5
MetresPerKm == 1000

----------------------------------------------------------------------------
(* Sequence helpers *)

Range(s) == { s[i] : i \in 1..Len(s) }

NoDup(s) == \A i, j \in 1..Len(s) : s[i] = s[j] => i = j

IsPrefix(s, t) == Len(s) <= Len(t) /\ SubSeq(t, 1, Len(s)) = s

\* all orders in which the elements of a finite set can be listed
RECURSIVE Orders(_)
Orders(S) ==
    IF S = {} THEN { << >> }
    ELSE UNION { { << x >> \o o : o \in Orders(S \ {x}) } : x \in S }

----------------------------------------------------------------------------
(* String.prototype.trim / toUpperCase on character sequences *)

IsSpace(c) == c = " "

UpperChar(c) ==
    CASE c = "a" -> "A"
      [] c = "b" -> "B"
      [] c = "o" -> "O"
      [] OTHER -> c

ToUpperCase(s) == [ i \in 1..Len(s) |-> UpperChar(s[i]) ]

RECURSIVE TrimStart(_)
TrimStart(s) ==
    IF s # << >> /\ IsSpace(Head(s)) THEN TrimStart(Tail(s)) ELSE s

RECURSIVE TrimEnd(_)
TrimEnd(s) ==
    IF s # << >> /\ IsSpace(s[Len(s)]) THEN TrimEnd(SubSeq(s, 1, Len(s) - 1)) ELSE s

Trim(s) == TrimEnd(TrimStart(s))

\* the mutant: compares the blood groups as written
StandardizeRaw(s) == s

\* bg.trim().toUpperCase()
Standardize(s) == ToUpperCase(Trim(s))

----------------------------------------------------------------------------
(* JavaScript Map, as the sequence of its entries in insertion order *)

MapKeys(m) == [ i \in 1..Len(m) |-> m[i].key ]

MapValues(m) == [ i \in 1..Len(m) |-> m[i].val ]

MapHas(m, k) == \E i \in 1..Len(m) : m[i].key = k

MapSize(m) == Len(m)

\* Map.prototype.set: replaces the value of a present key in place
MapSet(m, k, v) ==
    IF MapHas(m, k)
    THEN [ i \in 1..Len(m) |-> IF m[i].key = k THEN [key |-> k, val |-> v] ELSE m[i] ]
    ELSE Append(m, [key |-> k, val |-> v])

----------------------------------------------------------------------------
(* The stores the handlers read *)

UserIds == { "u1", "u2" }

\* deleteUserAccount names a user's donor documents `${userId}_daytime` and
\* `${userId}_nighttime`: a user owns two donor documents
DonorDocIds == { "u1_daytime", "u1_nighttime", "u2_daytime", "u2_nighttime" }

OwnerOf(docId) ==
    CASE docId \in { "u1_daytime", "u1_nighttime" } -> "u1"
      [] OTHER -> "u2"

\* a donor document without the field uid (donor.uid is undefined)
NoUid == ""

\* a profile without the field fcmToken (userData.fcmToken is falsy)
NoToken == ""

TokenOf(uid) == CASE uid = "u1" -> "tok_u1" [] OTHER -> "tok_u2"

OPos == << "O", "+" >>
OPosLoose == << " ", "o", "+", " " >>
ANeg == << "A", "-" >>

Donor(uid, hasGeopoint, distM, bloodGroup, isAvailable) ==
    [ uid |-> uid, hasGeopoint |-> hasGeopoint, distM |-> distM,
      bloodGroup |-> bloodGroup, isAvailable |-> isAvailable ]

\* the documents each donor doc id is drawn from: every rejection reason of
\* lines 304-333 alone, and distances in the first disc, in a later disc, in
\* the last disc and beyond the ceiling
DonorChoices(docId) ==
    LET u == OwnerOf(docId) IN
    CASE docId = "u1_daytime" ->
           { Donor(u, TRUE, 1500, OPos, TRUE),
             Donor(u, TRUE, 1500, OPosLoose, TRUE),
             Donor(u, TRUE, 1500, ANeg, TRUE) }
      [] docId = "u1_nighttime" ->
           { Donor(u, TRUE, 3000, OPos, TRUE),
             Donor(u, TRUE, 3000, OPos, FALSE),
             Donor(u, FALSE, 3000, OPos, TRUE) }
      [] docId = "u2_daytime" ->
           { Donor(u, TRUE, 1500, OPos, TRUE),
             Donor(u, TRUE, 49500, OPos, TRUE),
             Donor(u, TRUE, 50500, OPos, TRUE) }
      [] OTHER ->
           { Donor(u, TRUE, 3000, OPos, TRUE),
             Donor(NoUid, TRUE, 3000, OPos, TRUE),
             Donor(u, TRUE, 7000, OPosLoose, TRUE) }

UserChoices(uid) ==
    CASE uid = "u1" -> { [ exists |-> TRUE, fcmToken |-> TokenOf(uid) ] }
      [] OTHER -> { [ exists |-> TRUE, fcmToken |-> TokenOf(uid) ],
                    [ exists |-> TRUE, fcmToken |-> NoToken ],
                    [ exists |-> FALSE, fcmToken |-> NoToken ] }

\* requestData.bloodGroup: absent, or a list of blood-group strings
RequestedGroupChoices == { << >>, << OPos >>, << OPosLoose, ANeg >> }

\* a field that is absent or holds no array (Array.isArray is false)
NotArray == [ isArray |-> FALSE, items |-> << >> ]

ArrayOf(items) == [ isArray |-> TRUE, items |-> items ]

----------------------------------------------------------------------------
(* findMatchingDonors, lines 269-356 *)

\* lines 279-281
StandardizedRequestedGroups(requestedGroups) ==
    { Standardize(requestedGroups[i]) : i \in 1..Len(requestedGroups) }

\* the mutant: compares with the ceiling instead of the current radius
WithinCeiling(distM, radiusKm) == distM <= maxRadiusKm * MetresPerKm

\* line 329: distance <= currentRadiusKm
WithinRadius(distM, radiusKm) == distM <= radiusKm * MetresPerKm

\* the mutant: the availability flag is not looked at
AcceptsUnavailable(donor, userData, radiusKm, stdGroups) ==
    /\ WithinRadius(donor.distM, radiusKm)
    /\ Standardize(donor.bloodGroup) \in stdGroups
    /\ userData.fcmToken # NoToken

\* lines 328-333
Accepts(donor, userData, radiusKm, stdGroups) ==
    /\ WithinRadius(donor.distM, radiusKm)
    /\ Standardize(donor.bloodGroup) \in stdGroups
    /\ donor.isAvailable
    /\ userData.fcmToken # NoToken

\* line 334: { ...donor, fcmToken: userData.fcmToken, uid: donorUid }
\* (doc and radiusKm record where the entry came from)
Entry(docId, donor, userData, radiusKm) ==
    [ doc |-> docId, uid |-> donor.uid, fcmToken |-> userData.fcmToken,
      radiusKm |-> radiusKm ]

\* lines 298-343: one iteration of the inner for loop
ProcessDoc(docId, m, radiusKm, stdGroups) ==
    LET donor == donors[docId] IN
    IF MapHas(m, docId) THEN m
    ELSE IF ~donor.hasGeopoint THEN m
    ELSE IF donor.uid = NoUid THEN m
    ELSE IF ~users[donor.uid].exists THEN m
    ELSE IF Accepts(donor, users[donor.uid], radiusKm, stdGroups)
         THEN MapSet(m, docId, Entry(docId, donor, users[donor.uid], radiusKm))
         ELSE m

\* the mutant: the pass goes through every document, without the breaks
RECURSIVE RunPassAll(_, _, _, _, _)
RunPassAll(docs, m, radiusKm, stdGroups, target) ==
    IF docs = << >> THEN [ m |-> m, seen |-> {} ]
    ELSE LET rest == RunPassAll(Tail(docs),
                                ProcessDoc(Head(docs), m, radiusKm, stdGroups),
                                radiusKm, stdGroups, target)
         IN  [ m |-> rest.m, seen |-> rest.seen \cup { Head(docs) } ]

\* lines 295-346: the for loops over the documents of the snapshots, with
\* the breaks of lines 335 and 345; seen = the documents iterated over
RECURSIVE RunPass(_, _, _, _, _)
RunPass(docs, m, radiusKm, stdGroups, target) ==
    IF docs = << >> THEN [ m |-> m, seen |-> {} ]
    ELSE LET m1 == ProcessDoc(Head(docs), m, radiusKm, stdGroups) IN
         IF MapSize(m1) >= target
         THEN [ m |-> m1, seen |-> { Head(docs) } ]
         ELSE LET rest == RunPass(Tail(docs), m1, radiusKm, stdGroups, target) IN
              [ m |-> rest.m, seen |-> rest.seen \cup { Head(docs) } ]

\* geohashQueryBounds covers the disc of the radius: the range queries of
\* lines 284-292 return every document whose point is in the disc
InDisc(radiusKm) ==
    { d \in DOMAIN donors : donors[d].hasGeopoint /\ donors[d].distM <= radiusKm * MetresPerKm }

\* the mutant: the accumulator is created anew in every pass
FreshAccumulator(m) == << >>

\* line 270: the Map is created once, before the loop
Accumulator(m) == m

\* the mutant: the flag is set only once the radius is already past the ceiling
PastCeilingLate(radiusKm) == radiusKm > maxRadiusKm

\* line 351: currentRadiusKm + stepKm > maxRadiusKm
PastCeiling(radiusKm) == radiusKm + stepKm > maxRadiusKm

\* line 283: the loop condition
LoopCondition ==
    currentRadiusKm <= maxRadiusKm /\ MapSize(matchingDonors) < targetDonorCount

\* line 462: Math.min(Math.max(unitsNeeded, 3), 5), with line 461's `|| 1`
Max2(a, b) == IF a >= b THEN a ELSE b
Min2(a, b) == IF a <= b THEN a ELSE b
UnitsNeeded(unitsRequested) == IF unitsRequested = 0 THEN 1 ELSE unitsRequested
TargetDonorCount(unitsRequested) ==
    Min2(Max2(UnitsNeeded(unitsRequested), minTarget), maxTarget)

----------------------------------------------------------------------------
(* JSON.parse of the agent's reply (line 507), on the reply's tokens *)

\* JSON string literals: the token and the string it denotes
StringTokens == { "\"u1\"", "\"u2\"", "\"zz\"" }

StringValue(tok) ==
    CASE tok = "\"u1\"" -> "u1"
      [] tok = "\"u2\"" -> "u2"
      [] OTHER -> "zz"

StringLiteral(id) ==
    CASE id = "u1" -> "\"u1\""
      [] id = "u2" -> "\"u2\""
      [] OTHER -> "\"zz\""

ParseError == [ ok |-> FALSE, isArray |-> FALSE, items |-> << >> ]

\* elements of an array after its "[": string (, string)* "]" and nothing after
RECURSIVE ParseElements(_, _)
ParseElements(toks, items) ==
    IF Len(toks) < 2 \/ Head(toks) \notin StringTokens THEN ParseError
    ELSE LET items1 == Append(items, StringValue(Head(toks))) IN
         IF toks[2] = "]"
         THEN IF Len(toks) = 2
              THEN [ ok |-> TRUE, isArray |-> TRUE, items |-> items1 ]
              ELSE ParseError
         ELSE IF toks[2] = ","
              THEN ParseElements(SubSeq(toks, 3, Len(toks)), items1)
              ELSE ParseError

\* a JSON text: null, a string, the empty object, or an array of strings;
\* anything else is a SyntaxError
JSONParse(toks) ==
    IF toks = << "null" >> \/ toks = << "{", "}" >>
       \/ (Len(toks) = 1 /\ toks[1] \in StringTokens)
    THEN [ ok |-> TRUE, isArray |-> FALSE, items |-> << >> ]
    ELSE IF toks = << "[", "]" >>
    THEN [ ok |-> TRUE, isArray |-> TRUE, items |-> << >> ]
    ELSE IF toks # << >> /\ Head(toks) = "["
    THEN ParseElements(Tail(toks), << >>)
    ELSE ParseError

\* JSON.stringify of a list of ids
RECURSIVE JoinLiterals(_)
JoinLiterals(ids) ==
    IF Len(ids) = 1 THEN << StringLiteral(ids[1]) >>
    ELSE << StringLiteral(Head(ids)), "," >> \o JoinLiterals(Tail(ids))

Stringify(ids) ==
    IF ids = << >> THEN << "[", "]" >> ELSE << "[" >> \o JoinLiterals(ids) \o << "]" >>

----------------------------------------------------------------------------
(* The relevance-filter call and what it can answer, lines 482-497 *)

\* filterResponse.data.reply is undefined or ""
NoReply == << >>

\* ids the agent may list: the users, and an id of no validated donor
ReplyIds == UserIds \cup { "zz" }

IdLists == UNION { [ 1..n -> ReplyIds ] : n \in 0..MaxReplyLen }

UnparseableReplies ==
    { << "Sure" >>, << "[", "\"u1\"", "," >>, << "[", "\"u1\"", "\"u2\"", "]" >> }

NonListReplies == { << "null" >>, << "{", "}" >>, << "\"u1\"" >> }

\* axios.post rejects (network error, timeout, status outside 2xx), or
\* resolves with a status and a body
FilterOutcomes ==
    { [ threw |-> TRUE, status |-> 0, reply |-> NoReply ] }
    \cup { [ threw |-> FALSE, status |-> 204, reply |-> Stringify(<< "u1" >>) ] }
    \cup { [ threw |-> FALSE, status |-> 200, reply |-> r ] :
             r \in { NoReply } \cup UnparseableReplies \cup NonListReplies
                   \cup { Stringify(l) : l \in IdLists } }

\* the mutant: every validated donor is kept, whatever the list holds
IncludesAny(ids, uid) == TRUE

\* line 517: filteredDonorIds.includes(donor.uid)
Includes(ids, uid) == \E i \in 1..Len(ids) : ids[i] = uid

\* lines 515-520: the Map rebuilt from the donors whose uid is listed
RECURSIVE Rebuild(_, _, _)
Rebuild(values, filteredDonorIds, acc) ==
    IF values = << >> THEN acc
    ELSE Rebuild(Tail(values), filteredDonorIds,
                 IF Includes(filteredDonorIds, Head(values).uid)
                 THEN MapSet(acc, Head(values).uid, Head(values))
                 ELSE acc)

\* line 478: Array.from(matchingDonors.values()).map(d => d.uid)
DonorUids(m) == [ i \in 1..Len(m) |-> m[i].val.uid ]

\* lines 476-529: the value of filteredMatchingDonors after the step
Filtered(m, outcome) ==
    IF outcome.threw THEN m
    ELSE IF ~(outcome.status = 200 /\ outcome.reply # NoReply) THEN m
    ELSE LET parsed == JSONParse(outcome.reply)
             filteredDonorIds == IF parsed.ok THEN parsed.items ELSE DonorUids(m)
             isArray == IF parsed.ok THEN parsed.isArray ELSE TRUE
         IN  IF isArray THEN Rebuild(MapValues(m), filteredDonorIds, << >>) ELSE m

----------------------------------------------------------------------------
(* Step 4, lines 537-576: the names the object literals read *)

\* names bound where line 539 runs: the module's imports, the handler's
\* parameter, its consts and lets of lines 264-266 and 447-538, its helpers
CreatedScope ==
    { "admin", "logger", "axios", "geofire", "event", "requestData", "providerId",
      "requestId", "findMatchingDonors", "sendNoDonorNotification",
      "writeMessagesToDonors", "sendDonorNotification",
      "updateRequestWithFoundDonors", "providerRef", "providerDoc",
      "providerData", "providerLoc", "center", "requestedGroups", "unitsNeeded",
      "targetDonorCount", "matchingDonors", "expandedToMax", "currentRadiusKm",
      "filteredMatchingDonors", "requestRef" }

\* the mutant: the literal reads only names the handler binds
BoundContentNames == { "requestId", "event", "providerData" }

\* names read by the messageContent literal of lines 539-561
MessageContentNames ==
    { "after", "providerName", "providerData", "donorUid", "donorDataMsg",
      "requestId", "event", "providerDocSnap" }

\* the mutant: no read of the literal throws
NoUnboundNames == {}

\* reading an unbound name throws a ReferenceError
UnboundNames == MessageContentNames \ CreatedScope

\* line 562
TokenArray(m) == [ i \in 1..Len(m) |-> m[i].val.fcmToken ]

\* lines 405-408: the Set uniqueUids, in insertion order
RECURSIVE UniqueUids(_, _)
UniqueUids(values, acc) ==
    IF values = << >> THEN acc
    ELSE UniqueUids(Tail(values),
                    IF Head(values).uid # NoUid /\ Head(values).uid \notin Range(acc)
                    THEN Append(acc, Head(values).uid) ELSE acc)

\* the requester's profile as sendNoDonorNotification reads it
RequesterChoices == { "noRequestedBy", "noUserDoc", "noToken", "hasToken" }

RequesterToken == "tok_requester"

----------------------------------------------------------------------------
(* onBloodRequestCreated, lines 261-592 *)

NoOutcome == [ threw |-> FALSE, status |-> 0, reply |-> NoReply ]

UnitsChoices == { 0, MaxUnits }

StoreInit ==
    /\ donors \in { f \in [ DonorDocIds -> UNION { DonorChoices(d) : d \in DonorDocIds } ] :
                      \A d \in DonorDocIds : f[d] \in DonorChoices(d) }
    /\ users \in { f \in [ UserIds -> UNION { UserChoices(u) : u \in UserIds } ] :
                     \A u \in UserIds : f[u] \in UserChoices(u) }
    /\ providerExists \in BOOLEAN

CreationLocalsInit ==
    /\ currentRadiusKm = 0
    /\ matchingDonors = << >>
    /\ expandedToMax = FALSE
    /\ targetDonorCount = 0
    /\ filteredMatchingDonors = << >>
    /\ iterations = 0
    /\ filterOutcome = NoOutcome
    /\ pushes = << >>
    /\ userMessages = << >>
    /\ log = << >>

InvocationInit ==
    /\ pc = "start"
    /\ CreationLocalsInit

\* no update event is being handled
NoUpdateEvent ==
    /\ evBefore = NotArray
    /\ evAfter = NotArray
    /\ newDonors = << >>
    /\ matches = {}
    /\ donorMessages = << >>
    /\ hour = 0
    /\ events = 0
    /\ everAdded = {}

updateVars == << evBefore, evAfter, newDonors, matches, donorMessages, hour,
                events, everAdded, other >>

\* the effects a delivery can leave behind
Effects ==
    [ pushes |-> pushes, userMessages |-> userMessages, matches |-> matches,
      donorMessages |-> donorMessages, foundDonors |-> request.foundDonors ]

NoEffects ==
    [ pushes |-> << >>, userMessages |-> << >>, matches |-> {},
      donorMessages |-> << >>, foundDonors |-> NotArray ]

\* a creation event: no before snapshot
CreateEvent == [ beforeExists |-> FALSE, afterExists |-> TRUE ]
UpdateEvent == [ beforeExists |-> TRUE, afterExists |-> TRUE ]
DeleteEvent == [ beforeExists |-> TRUE, afterExists |-> FALSE ]

FirstDelivery ==
    /\ deliveries = 1
    /\ afterFirst = NoEffects

\* the locals of an invocation of onBloodRequestCreated that has not started
OtherLocals(req) ==
    [ pc |-> "start", request |-> req, currentRadiusKm |-> 0,
      matchingDonors |-> << >>, expandedToMax |-> FALSE, targetDonorCount |-> 0,
      iterations |-> 0, filteredMatchingDonors |-> << >> ]

\* no second invocation runs
NoOther ==
    [ OtherLocals([ bloodGroup |-> << >>, unitsRequested |-> 0,
                    foundDonors |-> NotArray ]) EXCEPT !.pc = "none" ]

Alone == other = NoOther

deliveryVars == << evWrite, deliveries, afterFirst >>

Init ==
    /\ StoreInit
    /\ NoUpdateEvent
    /\ evWrite = CreateEvent
    /\ FirstDelivery
    /\ Alone
    /\ request \in [ bloodGroup : RequestedGroupChoices,
                     unitsRequested : UnitsChoices,
                     foundDonors : { NotArray } ]
    /\ InvocationInit

\* lines 445-462 and 270-274: the provider read, the target, the search's locals
Start ==
    /\ pc = "start"
    /\ IF ~providerExists
       THEN /\ log' = Append(log, "Provider document not found")
            /\ pc' = "done"
            /\ UNCHANGED << currentRadiusKm, targetDonorCount >>
       ELSE /\ targetDonorCount' = TargetDonorCount(request.unitsRequested)
            /\ currentRadiusKm' = startRadiusKm
            /\ pc' = "search"
            /\ log' = log
    /\ UNCHANGED << donors, users, providerExists, request, matchingDonors,
                    expandedToMax, filteredMatchingDonors, iterations,
                    filterOutcome, pushes, userMessages >>
    /\ UNCHANGED updateVars
    /\ UNCHANGED deliveryVars

\* lines 283-354: one pass of the while loop.  The range queries return the
\* documents of the disc and any others (the cells over-include), in any order.
RadiusPass ==
    /\ pc = "search"
    /\ LoopCondition
    /\ \E fetched \in SUBSET (DOMAIN donors) :
         /\ InDisc(currentRadiusKm) \subseteq fetched
         /\ \E docs \in Orders(fetched) :
              LET pass == RunPass(docs, Accumulator(matchingDonors), currentRadiusKm,
                                  StandardizedRequestedGroups(request.bloodGroup),
                                  targetDonorCount)
              IN  /\ matchingDonors' = pass.m
                  /\ IF MapSize(pass.m) < targetDonorCount
                     THEN /\ expandedToMax' =
                               (IF PastCeiling(currentRadiusKm) THEN TRUE ELSE expandedToMax)
                          /\ currentRadiusKm' = currentRadiusKm + stepKm
                     ELSE UNCHANGED << expandedToMax, currentRadiusKm >>
    /\ iterations' = iterations + 1
    /\ UNCHANGED << donors, users, providerExists, request, pc, targetDonorCount,
                    filteredMatchingDonors, filterOutcome, pushes, userMessages, log >>
    /\ UNCHANGED updateVars
    /\ UNCHANGED deliveryVars

\* lines 355 and 465-473: the search returns; an empty result ends the handler
SearchReturn ==
    /\ pc = "search"
    /\ ~LoopCondition
    /\ pc' = IF MapSize(matchingDonors) = 0
             THEN IF expandedToMax \/ currentRadiusKm > maxRadiusKm
                  THEN "noDonor" ELSE "done"
             ELSE "filter"
    /\ UNCHANGED << donors, users, providerExists, request, currentRadiusKm,
                    matchingDonors, expandedToMax, targetDonorCount,
                    filteredMatchingDonors, iterations, filterOutcome, pushes,
                    userMessages, log >>
    /\ UNCHANGED updateVars
    /\ UNCHANGED deliveryVars

\* lines 475-535: the relevance filter, and the check for an empty result
FilterStep ==
    /\ pc = "filter"
    /\ \E outcome \in FilterOutcomes :
         /\ filterOutcome' = outcome
         /\ filteredMatchingDonors' = Filtered(matchingDonors, outcome)
         /\ pc' = IF MapSize(Filtered(matchingDonors, outcome)) = 0
                  THEN "noDonor" ELSE "dispatch"
    /\ UNCHANGED << donors, users, providerExists, request, currentRadiusKm,
                    matchingDonors, expandedToMax, targetDonorCount, iterations,
                    pushes, userMessages, log >>
    /\ UNCHANGED updateVars
    /\ UNCHANGED deliveryVars

\* the mutant: the notice goes to the donors the search had validated
NoDonorsToDonors(validated) == TokenArray(validated)

\* line 377: tokens: [userData.fcmToken], the requester's token
NoDonorsTokens(validated) == << RequesterToken >>

\* lines 359-401: sendNoDonorNotification, then return null
NoDonorNotify ==
    /\ pc = "noDonor"
    /\ \E requester \in RequesterChoices :
         pushes' = IF requester = "hasToken"
                   THEN Append(pushes, [ type |-> "NO_DONORS_FOUND",
                                         tokens |-> NoDonorsTokens(matchingDonors),
                                         donorId |-> NoUid ])
                   ELSE pushes
    /\ pc' = "done"
    /\ UNCHANGED << donors, users, providerExists, request, currentRadiusKm,
                    matchingDonors, expandedToMax, targetDonorCount,
                    filteredMatchingDonors, iterations, filterOutcome,
                    userMessages, log >>
    /\ UNCHANGED updateVars
    /\ UNCHANGED deliveryVars

\* the request document was deleted while the handler ran: update() of line
\* 442 rejects for a document that does not exist
RequestDeleted == other.pc \in { "written", "cancelled", "rejected" }

\* lines 537-590: the payloads are built, then the message writes, the push
\* and the foundDonors update run; a throw lands in the catch of line 587
Dispatch ==
    /\ pc = "dispatch"
    /\ IF UnboundNames # {}
       THEN /\ log' = Append(log, "Error in donor search/update")
            /\ UNCHANGED << request, pushes, userMessages >>
       ELSE /\ pushes' = Append(pushes, [ type |-> "NEW_MATCH",
                                          tokens |-> TokenArray(filteredMatchingDonors),
                                          donorId |-> NoUid ])
            /\ userMessages' =
                 userMessages \o UniqueUids(MapValues(filteredMatchingDonors), << >>)
            /\ request' = IF RequestDeleted THEN request
                          ELSE [ request EXCEPT
                                   !.foundDonors = ArrayOf(MapKeys(filteredMatchingDonors)) ]
            /\ log' = IF RequestDeleted
                      THEN Append(log, "Error in donor search/update") ELSE log
    /\ pc' = "done"
    /\ UNCHANGED << donors, users, providerExists, currentRadiusKm, matchingDonors,
                    expandedToMax, targetDonorCount, filteredMatchingDonors,
                    iterations, filterOutcome >>
    /\ UNCHANGED updateVars
    /\ UNCHANGED deliveryVars

\* the mutant: a failed read is taken for a search that found nobody
AfterReadFailureNotifies == "noDonor"

\* lines 587-590: the catch logs and the handler returns null
AfterReadFailure == "done"

ReadFailedLog == "Error in donor search/update: store read failed"

\* lines 448, 284-296, 321: a store read rejects (the provider document, a
\* range query, a users document).  All stand inside the try block of line
\* 444, so the catch of line 587 ends the handler.
ReadFails ==
    /\ \/ pc = "start"
       \/ pc = "search" /\ LoopCondition
    /\ log' = << ReadFailedLog >>
    /\ pc' = AfterReadFailure
    /\ UNCHANGED << donors, users, providerExists, request, currentRadiusKm,
                    matchingDonors, expandedToMax, targetDonorCount,
                    filteredMatchingDonors, iterations, filterOutcome, pushes,
                    userMessages >>
    /\ UNCHANGED updateVars
    /\ UNCHANGED deliveryVars

Next ==
    \/ Start
    \/ RadiusPass
    \/ SearchReturn
    \/ FilterStep
    \/ NoDonorNotify
    \/ Dispatch
    \/ ReadFails

Spec == Init /\ [][Next]_vars

-----------------------------------------------------------------------------
(* The creation event delivered more than once, the store unchanged between  *)
(* the deliveries: two documents of one user are eligible                    *)

RepeatDonors ==
    [ d \in DonorDocIds |->
        CASE d = "u1_daytime" -> Donor("u1", TRUE, 1500, OPos, TRUE)
          [] d = "u1_nighttime" -> Donor("u1", TRUE, 3000, OPos, TRUE)
          [] d = "u2_daytime" -> Donor("u2", TRUE, 1500, OPos, FALSE)
          [] OTHER -> Donor(NoUid, TRUE, 3000, OPos, TRUE) ]

InitRedeliver ==
    /\ donors = RepeatDonors
    /\ users = [ u \in UserIds |-> [ exists |-> TRUE, fcmToken |-> TokenOf(u) ] ]
    /\ providerExists \in BOOLEAN
    /\ request \in [ bloodGroup : { << OPos >> },
                      unitsRequested : UnitsChoices,
                      foundDonors : { NotArray } ]
    /\ InvocationInit
    /\ NoUpdateEvent
    /\ evWrite = CreateEvent
    /\ FirstDelivery
    /\ Alone

\* the platform delivers the creation event again to a fresh invocation
\* (lines 261-268): what the earlier delivery sent and wrote stays
RedeliverCreated ==
    /\ pc = "done"
    /\ evWrite = CreateEvent
    /\ deliveries < MaxDeliveries
    /\ deliveries' = deliveries + 1
    /\ afterFirst' = IF deliveries = 1 THEN Effects ELSE afterFirst
    /\ pc' = "start"
    /\ currentRadiusKm' = 0
    /\ matchingDonors' = << >>
    /\ expandedToMax' = FALSE
    /\ targetDonorCount' = 0
    /\ filteredMatchingDonors' = << >>
    /\ iterations' = 0
    /\ filterOutcome' = NoOutcome
    /\ log' = << >>
    /\ UNCHANGED << donors, users, providerExists, request, pushes, userMessages,
                    evWrite >>
    /\ UNCHANGED updateVars

NextRedeliver ==
    \/ Next
    \/ RedeliverCreated

SpecRedeliver == InitRedeliver /\ [][NextRedeliver]_vars

-----------------------------------------------------------------------------
(* Two invocations of onBloodRequestCreated, for two requests of one        *)
(* provider, running side by side on one store.  The first is the handler   *)
(* above; the second is the same code on the locals held in other.          *)

\* three donors of one group, met by three different passes, and one donor
\* of another group: what a search accepts does not depend on what the
\* range queries return beyond the disc
PairDonors ==
    [ d \in DonorDocIds |->
        CASE d = "u1_daytime" -> Donor("u1", TRUE, 1500, OPos, TRUE)
          [] d = "u1_nighttime" -> Donor("u1", TRUE, 3000, OPos, TRUE)
          [] d = "u2_daytime" -> Donor("u2", TRUE, 7000, OPos, TRUE)
          [] OTHER -> Donor("u2", TRUE, 1500, ANeg, TRUE) ]

PairRequests(units) ==
    [ bloodGroup : { << OPos >>, << ANeg >> }, unitsRequested : units,
      foundDonors : { NotArray } ]

InitPair ==
    /\ donors = PairDonors
    /\ users = [ u \in UserIds |-> [ exists |-> TRUE, fcmToken |-> TokenOf(u) ] ]
    /\ providerExists = TRUE
    /\ request \in PairRequests({ 0 })
    /\ other \in { OtherLocals(req) : req \in PairRequests(UnitsChoices) }
    /\ InvocationInit
    /\ NoUpdateEvent
    /\ evWrite = CreateEvent
    /\ FirstDelivery

\* the mutant: the Map is one object of the module, used by every invocation
SharedAccumulator(own, first) == first \o SelectSeq(own, LAMBDA e : ~MapHas(first, e.key))

\* line 270: new Map() inside findMatchingDonors, a closure of the invocation
OtherAccumulator(own, first) == own

otherFrame == << donors, users, providerExists, request, pc, currentRadiusKm,
                matchingDonors, expandedToMax, targetDonorCount,
                filteredMatchingDonors, iterations, filterOutcome, log,
                evBefore, evAfter, newDonors, matches, donorMessages,
                evWrite, deliveries, afterFirst, hour, events, everAdded >>

\* lines 445-462 and 270-274 of the second invocation
OtherStart ==
    /\ other.pc = "start"
    /\ other' = IF ~providerExists
                THEN [ other EXCEPT !.pc = "done" ]
                ELSE [ other EXCEPT
                         !.targetDonorCount = TargetDonorCount(other.request.unitsRequested),
                         !.currentRadiusKm = startRadiusKm,
                         !.pc = "search" ]
    /\ UNCHANGED << pushes, userMessages >>
    /\ UNCHANGED otherFrame

\* line 283 of the second invocation
OtherLoopCondition ==
    /\ other.currentRadiusKm <= maxRadiusKm
    /\ MapSize(other.matchingDonors) < other.targetDonorCount

\* lines 283-354 of the second invocation: one pass of its while loop
OtherRadiusPass ==
    /\ other.pc = "search"
    /\ OtherLoopCondition
    /\ \E fetched \in SUBSET (DOMAIN donors) :
         /\ InDisc(other.currentRadiusKm) \subseteq fetched
         /\ \E docs \in Orders(fetched) :
              LET pass == RunPass(docs,
                                  OtherAccumulator(other.matchingDonors, matchingDonors),
                                  other.currentRadiusKm,
                                  StandardizedRequestedGroups(other.request.bloodGroup),
                                  other.targetDonorCount)
                  missed == MapSize(pass.m) < other.targetDonorCount
              IN  other' = [ other EXCEPT
                               !.matchingDonors = pass.m,
                               !.iterations = @ + 1,
                               !.expandedToMax =
                                   IF missed /\ PastCeiling(other.currentRadiusKm)
                                   THEN TRUE ELSE @,
                               !.currentRadiusKm = IF missed THEN @ + stepKm ELSE @ ]
    /\ UNCHANGED << pushes, userMessages >>
    /\ UNCHANGED otherFrame

\* lines 355 and 465-473 of the second invocation
OtherSearchReturn ==
    /\ other.pc = "search"
    /\ ~OtherLoopCondition
    /\ other' = [ other EXCEPT !.pc =
                    IF MapSize(other.matchingDonors) = 0
                    THEN IF other.expandedToMax \/ other.currentRadiusKm > maxRadiusKm
                         THEN "noDonor" ELSE "done"
                    ELSE "filter" ]
    /\ UNCHANGED << pushes, userMessages >>
    /\ UNCHANGED otherFrame

\* lines 475-590 of the second invocation: the filter, then the no-donor
\* notice or the dispatch (its log lines are left out of log, which holds
\* the lines of the first invocation)
OtherFinish ==
    /\ other.pc \in { "filter", "noDonor" }
    /\ \E outcome \in FilterOutcomes, requester \in RequesterChoices :
         LET filtered == IF other.pc = "filter"
                         THEN Filtered(other.matchingDonors, outcome)
                         ELSE << >>
         IN  IF MapSize(filtered) = 0
             THEN /\ pushes' = IF requester = "hasToken"
                               THEN Append(pushes, [ type |-> "NO_DONORS_FOUND",
                                                     tokens |-> NoDonorsTokens(other.matchingDonors),
                                                     donorId |-> NoUid ])
                               ELSE pushes
                  /\ userMessages' = userMessages
                  /\ other' = [ other EXCEPT !.pc = "done",
                                             !.filteredMatchingDonors = filtered ]
             ELSE IF UnboundNames # {}
             THEN /\ UNCHANGED << pushes, userMessages >>
                  /\ other' = [ other EXCEPT !.pc = "done",
                                             !.filteredMatchingDonors = filtered ]
             ELSE /\ pushes' = Append(pushes, [ type |-> "NEW_MATCH",
                                                tokens |-> TokenArray(filtered),
                                                donorId |-> NoUid ])
                  /\ userMessages' =
                       userMessages \o UniqueUids(MapValues(filtered), << >>)
                  /\ other' = [ other EXCEPT
                                  !.pc = "done",
                                  !.filteredMatchingDonors = filtered,
                                  !.request.foundDonors = ArrayOf(MapKeys(filtered)) ]
    /\ UNCHANGED otherFrame

NextPair ==
    \/ Next
    \/ OtherStart
    \/ OtherRadiusPass
    \/ OtherSearchReturn
    \/ OtherFinish

SpecPair == InitPair /\ [][NextPair]_vars

-----------------------------------------------------------------------------
(* The creation handler for every unitsRequested value of a range around   *)
(* the clamp; 0 also stands for an absent field, both being falsy at line  *)
(* 461                                                                     *)

UnitsRange == (0 - MaxUnits)..(2 * MaxUnits)

InitTarget ==
    /\ donors = RepeatDonors
    /\ users = [ u \in UserIds |-> [ exists |-> TRUE, fcmToken |-> TokenOf(u) ] ]
    /\ providerExists \in BOOLEAN
    /\ request \in [ bloodGroup : { << OPos >> },
                      unitsRequested : UnitsRange,
                      foundDonors : { NotArray } ]
    /\ InvocationInit
    /\ NoUpdateEvent
    /\ evWrite = CreateEvent
    /\ FirstDelivery
    /\ Alone

SpecTarget == InitTarget /\ [][Next]_vars

-----------------------------------------------------------------------------
(* The creation handler on the store of the worked example: five eligible   *)
(* donors at 1.5, 3.0, 4.5, 7.0 and 9.5 km and two donors of another group   *)
(* at 2 km, every donor a user of its own with a device token               *)

BPos == << "B", "+" >>

ExampleDonors ==
    [ e15 |-> Donor("u1", TRUE, 1500, OPos, TRUE),
      e30 |-> Donor("u2", TRUE, 3000, OPos, TRUE),
      e45 |-> Donor("u3", TRUE, 4500, OPos, TRUE),
      e70 |-> Donor("u4", TRUE, 7000, OPos, TRUE),
      e95 |-> Donor("u5", TRUE, 9500, OPos, TRUE),
      w1  |-> Donor("u6", TRUE, 2000, BPos, TRUE),
      w2  |-> Donor("u7", TRUE, 2000, BPos, TRUE) ]

ExampleUsers ==
    [ u1 |-> [ exists |-> TRUE, fcmToken |-> "tok_u1" ],
      u2 |-> [ exists |-> TRUE, fcmToken |-> "tok_u2" ],
      u3 |-> [ exists |-> TRUE, fcmToken |-> "tok_u3" ],
      u4 |-> [ exists |-> TRUE, fcmToken |-> "tok_u4" ],
      u5 |-> [ exists |-> TRUE, fcmToken |-> "tok_u5" ],
      u6 |-> [ exists |-> TRUE, fcmToken |-> "tok_u6" ],
      u7 |-> [ exists |-> TRUE, fcmToken |-> "tok_u7" ] ]

\* the unitsRequested values that line 462 turns into the target 3
ExampleUnits == 0..minTarget

InitExample ==
    /\ donors = ExampleDonors
    /\ users = ExampleUsers
    /\ providerExists \in BOOLEAN
    /\ request \in [ bloodGroup : { << OPos >>, << OPosLoose, ANeg >> },
                      unitsRequested : ExampleUnits,
                      foundDonors : { NotArray } ]
    /\ InvocationInit
    /\ NoUpdateEvent
    /\ evWrite = CreateEvent
    /\ FirstDelivery
    /\ Alone

SpecExample == InitExample /\ [][Next]_vars

----------------------------------------------------------------------------
(* onMatchedDonorAdded, lines 594-711 *)

\* ids a matchedDonors list may hold: the users, and an id without a profile
ConfirmIds == UserIds \cup { "u9" }

MatchedDonorsChoices ==
    { NotArray } \cup
    { ArrayOf(l) : l \in UNION { [ 1..n -> ConfirmIds ] : n \in 0..MaxListLen } }

UserExists(uid) == uid \in DOMAIN users /\ users[uid].exists

\* the id of the request of the event (event.params.requestId)
RequestId == "r1"

\* the mutant: every id of the current list counts as new
AllOf(before, after) == after

\* line 606: after.matchedDonors.filter((uid) => !before.matchedDonors.includes(uid))
NewDonorsOf(before, after) ==
    SelectSeq(after, LAMBDA uid : ~Includes(before, uid))

\* the ids a matchedDonors field holds, none when it is absent
Ids(list) == IF list.isArray THEN Range(list.items) ELSE {}

\* the first update event of the request has been written
FirstEvent ==
    /\ events = 1
    /\ everAdded = Ids(evAfter) \ Ids(evBefore)

\* the mutant: the match document gets an id of its own, as add() gives
MatchDocIdAuto(requestId, existing) ==
    CASE Cardinality(existing) = 0 -> "auto0"
      [] Cardinality(existing) = 1 -> "auto1"
      [] Cardinality(existing) = 2 -> "auto2"
      [] OTHER -> "auto3"

\* lines 657-661: users/{donorUid}/matches/{requestId}: the request id is
\* the document id
MatchDocId(requestId, existing) == requestId

\* the hours of the day
Hours == 0..23

\* the hours at which the update events of SpecUpdate are handled
UpdateHours == { 6, 18 }

\* the mutant: hour 18 still counts as day
IsDaytimeLate(h) == h >= 6 /\ h <= 18

\* line 632: hour >= 6 && hour < 18
IsDaytime(h) == h >= 6 /\ h < 18

\* line 633: the field of the donor's profile the body's Area line shows
Area(h) == IF IsDaytime(h) THEN "daytimeAddress" ELSE "nighttimeAddress"

DefaultDonors == [ d \in DonorDocIds |-> Donor(OwnerOf(d), TRUE, 1500, OPos, TRUE) ]

InitUpdate ==
    /\ donors = DefaultDonors
    /\ users \in { f \in [ UserIds -> UNION { UserChoices(u) : u \in UserIds } ] :
                     \A u \in UserIds : f[u] \in UserChoices(u) }
    /\ providerExists \in BOOLEAN
    /\ request = [ bloodGroup |-> << OPos >>, unitsRequested |-> 0,
                   foundDonors |-> NotArray ]
    /\ CreationLocalsInit
    /\ evBefore \in MatchedDonorsChoices
    /\ evAfter \in MatchedDonorsChoices
    /\ newDonors = << >>
    /\ matches = {}
    /\ donorMessages = << >>
    /\ hour \in UpdateHours
    /\ FirstEvent
    /\ evWrite = UpdateEvent
    /\ FirstDelivery
    /\ Alone
    /\ pc = "updated"

creationVars == << donors, users, providerExists, request, currentRadiusKm,
                   matchingDonors, expandedToMax, targetDonorCount,
                   filteredMatchingDonors, iterations, filterOutcome,
                   userMessages, log, other >>

\* lines 597-620: the guards, the added ids, the requester's token, the provider
UpdateStart ==
    /\ pc = "updated"
    /\ \E requester \in RequesterChoices :
         LET added == IF evBefore.isArray /\ evAfter.isArray
                      THEN NewDonorsOf(evBefore.items, evAfter.items)
                      ELSE << >>
         IN  IF added = << >> \/ requester # "hasToken"
             THEN pc' = "done" /\ newDonors' = << >>
             ELSE pc' = "confirming" /\ newDonors' = added
    /\ UNCHANGED << evBefore, evAfter, matches, donorMessages, pushes, hour,
                    events, everAdded >>
    /\ UNCHANGED creationVars
    /\ UNCHANGED deliveryVars

\* what the messaging gateway does with a sendEachForMulticast call
GatewayOutcomes == { "resolves", "rejects" }

\* lines 623-708: one iteration of the loop over newDonors.  The await of
\* line 648 stands in no try block: a rejected call ends the invocation there.
ConfirmDonor ==
    /\ pc = "confirming"
    /\ newDonors # << >>
    /\ LET donorUid == Head(newDonors) IN
       IF ~UserExists(donorUid)
       THEN /\ UNCHANGED << pushes, matches, donorMessages >>
            /\ newDonors' = Tail(newDonors)
            /\ pc' = IF Tail(newDonors) = << >> THEN "done" ELSE "confirming"
       ELSE /\ pushes' = Append(pushes, [ type |-> "DONOR_MATCHED",
                                          tokens |-> << RequesterToken >>,
                                          donorId |-> donorUid,
                                          area |-> Area(hour),
                                          hour |-> hour ])
            /\ \E gateway \in GatewayOutcomes :
                 IF gateway = "rejects"
                 THEN /\ UNCHANGED << matches, donorMessages >>
                      /\ newDonors' = << >>
                      /\ pc' = "rejected"
                 ELSE /\ matches' = matches \cup
                                      { [ uid |-> donorUid,
                                          docId |-> MatchDocId(RequestId, matches),
                                          requestId |-> RequestId ] }
                      /\ donorMessages' = Append(donorMessages, donorUid)
                      /\ newDonors' = Tail(newDonors)
                      /\ pc' = IF Tail(newDonors) = << >> THEN "done" ELSE "confirming"
    /\ UNCHANGED << evBefore, evAfter, hour, events, everAdded >>
    /\ UNCHANGED creationVars
    /\ UNCHANGED deliveryVars

\* the platform delivers events at least once: an event whose invocation has
\* ended may be delivered again, to a handler that keeps nothing between
\* invocations (lines 594-600 read only the event and the store)
RedeliverUpdate ==
    /\ pc \in { "done", "rejected" }
    /\ evWrite = UpdateEvent
    /\ deliveries < MaxDeliveries
    /\ deliveries' = deliveries + 1
    /\ afterFirst' = IF deliveries = 1 THEN Effects ELSE afterFirst
    /\ pc' = "updated"
    /\ newDonors' = << >>
    /\ UNCHANGED << evBefore, evAfter, matches, donorMessages, pushes, evWrite, hour,
                    events, everAdded >>
    /\ UNCHANGED creationVars

NextUpdate ==
    \/ UpdateStart
    \/ ConfirmDonor
    \/ RedeliverUpdate

SpecUpdate == InitUpdate /\ [][NextUpdate]_vars

-----------------------------------------------------------------------------
(* onMatchedDonorAdded over a sequence of update events of one request,     *)
(* each delivered once or more                                              *)

\* the values the matchedDonors field takes: ids come and go
EventLists == { ArrayOf(<< >>), ArrayOf(<< "u1" >>), ArrayOf(<< "u1", "u2" >>) }

InitEvents ==
    /\ donors = DefaultDonors
    /\ users = [ u \in UserIds |-> [ exists |-> TRUE, fcmToken |-> TokenOf(u) ] ]
    /\ providerExists = TRUE
    /\ request = [ bloodGroup |-> << OPos >>, unitsRequested |-> 0,
                   foundDonors |-> NotArray ]
    /\ CreationLocalsInit
    /\ evBefore \in EventLists
    /\ evAfter \in EventLists \ { evBefore }
    /\ newDonors = << >>
    /\ matches = {}
    /\ donorMessages = << >>
    /\ hour = 6
    /\ FirstEvent
    /\ evWrite = UpdateEvent
    /\ FirstDelivery
    /\ Alone
    /\ pc = "updated"

\* the request is updated again: the after snapshot of the last event is the
\* before snapshot of the new one (lines 597-598)
NewUpdateEvent ==
    /\ pc \in { "done", "rejected" }
    /\ evWrite = UpdateEvent
    /\ events < MaxEvents
    /\ \E list \in EventLists \ { evAfter } :
         /\ evBefore' = evAfter
         /\ evAfter' = list
         /\ everAdded' = everAdded \cup (Ids(list) \ Ids(evAfter))
    /\ events' = events + 1
    /\ deliveries' = 1
    /\ afterFirst' = NoEffects
    /\ pc' = "updated"
    /\ newDonors' = << >>
    /\ UNCHANGED << matches, donorMessages, pushes, hour, evWrite >>
    /\ UNCHANGED creationVars

NextEvents ==
    \/ NextUpdate
    \/ NewUpdateEvent

SpecEvents == InitEvents /\ [][NextEvents]_vars

-----------------------------------------------------------------------------
(* onMatchedDonorAdded at every hour of the day, the clock going on while   *)
(* the handler runs                                                         *)

InitHour ==
    /\ donors = DefaultDonors
    /\ users = [ u \in UserIds |-> [ exists |-> TRUE, fcmToken |-> TokenOf(u) ] ]
    /\ providerExists = TRUE
    /\ request = [ bloodGroup |-> << OPos >>, unitsRequested |-> 0,
                   foundDonors |-> NotArray ]
    /\ CreationLocalsInit
    /\ evBefore = ArrayOf(<< >>)
    /\ evAfter \in { ArrayOf(<< "u1" >>), ArrayOf(<< "u1", "u2" >>) }
    /\ newDonors = << >>
    /\ matches = {}
    /\ donorMessages = << >>
    /\ hour \in Hours
    /\ FirstEvent
    /\ evWrite = UpdateEvent
    /\ FirstDelivery
    /\ Alone
    /\ pc = "updated"

\* an hour ends between two iterations of the loop of line 623
ClockTick ==
    /\ pc = "confirming"
    /\ hour' = (hour + 1) % 24
    /\ UNCHANGED << evBefore, evAfter, newDonors, matches, donorMessages, pushes, pc,
                    events, everAdded >>
    /\ UNCHANGED creationVars
    /\ UNCHANGED deliveryVars

NextHour ==
    \/ UpdateStart
    \/ ConfirmDonor
    \/ ClockTick

SpecHour == InitHour /\ [][NextHour]_vars

-----------------------------------------------------------------------------
(* onBloodRequestDeleted, lines 713-759 *)

\* the users a deleted request can list; "d" is listed by no witness
CancelIds == { "a", "b", "c", "d" }

CancelToken(uid) ==
    CASE uid = "a" -> "tok_a" [] uid = "b" -> "tok_b"
      [] uid = "c" -> "tok_c" [] OTHER -> "tok_d"

CancelUserChoices(uid) ==
    CASE uid = "a" -> { [ exists |-> TRUE, fcmToken |-> CancelToken(uid) ],
                        [ exists |-> TRUE, fcmToken |-> NoToken ],
                        [ exists |-> FALSE, fcmToken |-> NoToken ] }
      [] uid = "b" -> { [ exists |-> TRUE, fcmToken |-> CancelToken(uid) ],
                        [ exists |-> TRUE, fcmToken |-> NoToken ] }
      [] OTHER -> { [ exists |-> TRUE, fcmToken |-> CancelToken(uid) ] }

\* requestData.foundDonors of the before snapshot
FoundDonorsChoices ==
    { NotArray } \cup
    { ArrayOf(l) : l \in UNION { [ 1..n -> CancelIds ] : n \in 0..MaxFoundLen } }

WriteEvents == { CreateEvent, UpdateEvent, DeleteEvent }

\* the mutant: every write whose before snapshot exists counts as a deletion
HadBefore(w) == w.beforeExists

\* line 719: !after.exists && before.exists
IsDeletion(w) == ~w.afterExists /\ w.beforeExists

\* the mutant: only the first listed donor is looked up
FirstToken(foundDonors) ==
    IF foundDonors # << >> /\ UserExists(Head(foundDonors))
                          /\ users[Head(foundDonors)].fcmToken # NoToken
    THEN << users[Head(foundDonors)].fcmToken >>
    ELSE << >>

\* lines 725-732: the users documents of the listed ids are read, and the
\* truthy fcmToken values of those that exist are kept, in list order
RECURSIVE CancellationTokens(_)
CancellationTokens(foundDonors) ==
    IF foundDonors = << >> THEN << >>
    ELSE LET uid == Head(foundDonors)
             rest == CancellationTokens(Tail(foundDonors))
         IN  IF UserExists(uid) /\ users[uid].fcmToken # NoToken
             THEN << users[uid].fcmToken >> \o rest
             ELSE rest

InitDelete ==
    /\ donors = DefaultDonors
    /\ users \in { f \in [ CancelIds -> UNION { CancelUserChoices(u) : u \in CancelIds } ] :
                     \A u \in CancelIds : f[u] \in CancelUserChoices(u) }
    /\ providerExists = TRUE
    /\ evWrite \in WriteEvents
    /\ \E found \in FoundDonorsChoices :
         /\ (~evWrite.beforeExists => found = NotArray)
         /\ request = [ bloodGroup |-> << OPos >>, unitsRequested |-> 0,
                        foundDonors |-> found ]
    /\ CreationLocalsInit
    /\ NoUpdateEvent
    /\ FirstDelivery
    /\ Alone
    /\ pc = "written"

\* lines 715-758: the whole handler.  request holds the data of the before
\* snapshot; the handler writes to no document.
DeletedHandler ==
    /\ pc = "written"
    /\ LET foundDonors == IF request.foundDonors.isArray
                          THEN request.foundDonors.items ELSE << >>
           tokens == CancellationTokens(foundDonors)
       IN  IF IsDeletion(evWrite) /\ Len(foundDonors) # 0 /\ Len(tokens) # 0
           THEN /\ pushes' = Append(pushes, [ type |-> "REQUEST_CANCELLED",
                                              tokens |-> tokens,
                                              donorId |-> NoUid ])
                /\ \E gateway \in GatewayOutcomes :
                     pc' = IF gateway = "rejects" THEN "rejected" ELSE "done"
           ELSE /\ pushes' = pushes
                /\ pc' = "done"
    /\ UNCHANGED << donors, users, providerExists, request, currentRadiusKm,
                    matchingDonors, expandedToMax, targetDonorCount,
                    filteredMatchingDonors, iterations, filterOutcome,
                    userMessages, log >>
    /\ UNCHANGED updateVars
    /\ UNCHANGED deliveryVars

NextDelete ==
    \/ DeletedHandler

SpecDelete == InitDelete /\ [][NextDelete]_vars

-----------------------------------------------------------------------------
(* The request is deleted while its creation handler runs: the deletion     *)
(* handler is the second invocation, other.request its before snapshot      *)

InitRace ==
    /\ donors = PairDonors
    /\ users = [ u \in UserIds |-> [ exists |-> TRUE, fcmToken |-> TokenOf(u) ] ]
    /\ providerExists = TRUE
    /\ request \in PairRequests(UnitsChoices)
    /\ other = [ NoOther EXCEPT !.pc = "live" ]
    /\ InvocationInit
    /\ NoUpdateEvent
    /\ evWrite = CreateEvent
    /\ FirstDelivery

\* the request document is deleted; the write event carries the document
\* as it is at that moment (line 716)
DeleteRequest ==
    /\ other.pc = "live"
    /\ other' = [ other EXCEPT !.pc = "written", !.request = request ]
    /\ UNCHANGED << pushes, userMessages >>
    /\ UNCHANGED otherFrame

\* lines 715-758 on the before snapshot of the deleted request
RaceDeletedHandler ==
    /\ other.pc = "written"
    /\ LET foundDonors == IF other.request.foundDonors.isArray
                          THEN other.request.foundDonors.items ELSE << >>
           tokens == CancellationTokens(foundDonors)
       IN  IF Len(foundDonors) # 0 /\ Len(tokens) # 0
           THEN /\ pushes' = Append(pushes, [ type |-> "REQUEST_CANCELLED",
                                              tokens |-> tokens,
                                              donorId |-> NoUid ])
                /\ \E gateway \in GatewayOutcomes :
                     other' = [ other EXCEPT !.pc =
                                  IF gateway = "rejects" THEN "rejected" ELSE "cancelled" ]
           ELSE /\ pushes' = pushes
                /\ other' = [ other EXCEPT !.pc = "cancelled" ]
    /\ userMessages' = userMessages
    /\ UNCHANGED otherFrame

NextRace ==
    \/ Next
    \/ DeleteRequest
    \/ RaceDeletedHandler

SpecRace == InitRace /\ [][NextRace]_vars

-----------------------------------------------------------------------------
(* The write of foundDonors onto the request and the update event it       *)
(* produces, delivered to onMatchedDonorAdded and to onBloodRequestDeleted; *)
(* the writes of matchedDonors are those of the client                     *)

\* the lists updateRequestWithFoundDonors is called with
NotifiedLists == { << "u1" >>, << "u2" >>, << "u1", "u2" >> }

\* the mutant: the write puts the list onto matchedDonors as well
WriteAlsoConfirms(matched, donorIds) == ArrayOf(donorIds)

\* line 442: update({ foundDonors: donorIds }) leaves every other field of
\* the request as it is
MatchedAfterWrite(matched, donorIds) == matched

InitCascade ==
    /\ donors = DefaultDonors
    /\ users = [ u \in UserIds |-> [ exists |-> TRUE, fcmToken |-> TokenOf(u) ] ]
    /\ providerExists = TRUE
    /\ request = [ bloodGroup |-> << OPos >>, unitsRequested |-> 0,
                   foundDonors |-> NotArray ]
    /\ CreationLocalsInit
    /\ evAfter \in { NotArray } \cup EventLists
    /\ evBefore = evAfter
    /\ newDonors = << >>
    /\ matches = {}
    /\ donorMessages = << >>
    /\ hour = 6
    /\ events = 0
    /\ everAdded = {}
    /\ evWrite = CreateEvent
    /\ FirstDelivery
    /\ other = [ NoOther EXCEPT !.pc = "returned", !.request = request ]
    /\ pc = "done"

\* both handlers have returned for the last write of the request
HandlersReturned ==
    /\ pc \in { "done", "rejected" }
    /\ other.pc \in { "returned", "rejected" }

cascadeFrame == << donors, users, providerExists, currentRadiusKm, matchingDonors,
                  expandedToMax, targetDonorCount, filteredMatchingDonors,
                  iterations, filterOutcome, userMessages, log, matches,
                  donorMessages, pushes, hour >>

\* lines 441-443: the list is written onto the request; the write is an
\* update event whose before snapshot is the request as it was (lines
\* 597-598 and 716-717)
WriteFoundDonors ==
    /\ HandlersReturned
    /\ events < MaxEvents
    /\ \E donorIds \in NotifiedLists :
         /\ ArrayOf(donorIds) # request.foundDonors
         /\ request' = [ request EXCEPT !.foundDonors = ArrayOf(donorIds) ]
         /\ evBefore' = evAfter
         /\ evAfter' = MatchedAfterWrite(evAfter, donorIds)
         /\ everAdded' = everAdded \cup (Ids(evAfter') \ Ids(evAfter))
    /\ other' = [ other EXCEPT !.pc = "written", !.request = request ]
    /\ evWrite' = UpdateEvent
    /\ events' = events + 1
    /\ deliveries' = 1
    /\ afterFirst' = NoEffects
    /\ pc' = "updated"
    /\ newDonors' = << >>
    /\ UNCHANGED cascadeFrame

\* the client writes matchedDonors: an update event of the same request
WriteMatchedDonors ==
    /\ HandlersReturned
    /\ events < MaxEvents
    /\ \E list \in EventLists \ { evAfter } :
         /\ evBefore' = evAfter
         /\ evAfter' = list
         /\ everAdded' = everAdded \cup (Ids(list) \ Ids(evAfter))
    /\ other' = [ other EXCEPT !.pc = "written", !.request = request ]
    /\ evWrite' = UpdateEvent
    /\ events' = events + 1
    /\ deliveries' = 1
    /\ afterFirst' = NoEffects
    /\ pc' = "updated"
    /\ newDonors' = << >>
    /\ request' = request
    /\ UNCHANGED cascadeFrame

\* lines 715-758 for the write event of the request, other.request the
\* data of its before snapshot
WrittenHandler ==
    /\ other.pc = "written"
    /\ LET foundDonors == IF other.request.foundDonors.isArray
                          THEN other.request.foundDonors.items ELSE << >>
           tokens == CancellationTokens(foundDonors)
       IN  IF IsDeletion(evWrite) /\ Len(foundDonors) # 0 /\ Len(tokens) # 0
           THEN /\ pushes' = Append(pushes, [ type |-> "REQUEST_CANCELLED",
                                              tokens |-> tokens,
                                              donorId |-> NoUid ])
                /\ \E gateway \in GatewayOutcomes :
                     other' = [ other EXCEPT !.pc =
                                  IF gateway = "rejects" THEN "rejected" ELSE "returned" ]
           ELSE /\ pushes' = pushes
                /\ other' = [ other EXCEPT !.pc = "returned" ]
    /\ userMessages' = userMessages
    /\ UNCHANGED otherFrame

NextCascade ==
    \/ NextUpdate
    \/ WriteFoundDonors
    \/ WriteMatchedDonors
    \/ WrittenHandler

SpecCascade == InitCascade /\ [][NextCascade]_vars

----------------------------------------------------------------------------
(* Vocabulary of the properties *)

\* a store read of the invocation failed
ReadFailed == ReadFailedLog \in Range(log)

\* the search has returned to the handler
SearchReturned ==
    /\ providerExists
    /\ ~ReadFailed
    /\ pc \in { "filter", "noDonor", "dispatch", "done" }

\* the relevance-filter step has run
FilterRan ==
    /\ pc \in { "noDonor", "dispatch", "done" }
    /\ ~ReadFailed
    /\ MapSize(matchingDonors) > 0

\* the handler has returned after the search and the filter left donors
DispatchReturned == pc = "done" /\ MapSize(filteredMatchingDonors) > 0

\* the radius of the last pass that ran to its end without meeting the target
LastFullRadiusKm == currentRadiusKm - 2

\* blood groups that are equal up to case and surrounding blanks, said
\* without trim and toUpperCase
LowerChar(c) ==
    CASE c = "A" -> "a"
      [] c = "B" -> "b"
      [] c = "O" -> "o"
      [] OTHER -> c

Core(s) ==
    LET inked == { i \in 1..Len(s) : s[i] # " " } IN
    IF inked = {} THEN << >>
    ELSE SubSeq(s, CHOOSE i \in inked : \A j \in inked : i <= j,
                   CHOOSE i \in inked : \A j \in inked : i >= j)

SameGroup(a, b) ==
    /\ Len(Core(a)) = Len(Core(b))
    /\ \A k \in 1..Len(Core(a)) : LowerChar(Core(a)[k]) = LowerChar(Core(b)[k])

GroupRequested(docId) ==
    \E i \in 1..Len(request.bloodGroup) :
        SameGroup(donors[docId].bloodGroup, request.bloodGroup[i])

\* every condition of acceptance but the blood group and the distance
OtherwiseEligible(docId) ==
    /\ donors[docId].hasGeopoint
    /\ donors[docId].uid # NoUid
    /\ UserExists(donors[docId].uid)
    /\ users[donors[docId].uid].fcmToken # NoToken
    /\ donors[docId].isAvailable

Accepted == Range(MapKeys(matchingDonors))

----------------------------------------------------------------------------
(* C1: after a creation event whose search and filter leave a non-empty     *)
(* donor set S, the handler has, when it returns, sent the new-match push   *)
(* to the token of every donor of S and written a message record for every  *)
(* donor of S.                                                              *)
C1_NewMatchSentAndRecorded ==
    DispatchReturned =>
        \A i \in 1..Len(filteredMatchingDonors) :
            /\ \E j \in 1..Len(pushes) :
                  /\ pushes[j].type = "NEW_MATCH"
                  /\ filteredMatchingDonors[i].val.fcmToken \in Range(pushes[j].tokens)
            /\ filteredMatchingDonors[i].val.uid \in Range(userMessages)

(* C2: after a creation event whose search and filter leave a non-empty     *)
(* donor set S, the request's foundDonors is exactly the ids of S.          *)
C2_FoundDonorsPersisted ==
    DispatchReturned =>
        request.foundDonors = ArrayOf(MapKeys(filteredMatchingDonors))

(* C3: whatever the range queries return, every accepted donor has a point  *)
(* whose distance to the center is at most the radius of the pass that      *)
(* accepted it, which is at most the radius examined so far.                *)
C3_ExactDistance ==
    \A i \in 1..Len(matchingDonors) :
        LET e == matchingDonors[i].val IN
        /\ donors[e.doc].hasGeopoint
        /\ donors[e.doc].distM <= e.radiusKm * 1000
        /\ e.radiusKm <= currentRadiusKm
        /\ e.radiusKm <= 50

\* the search is over with donors accepted, and a donor that meets every
\* other condition but lies beyond the radius reached was left out
C3_Witness ==
    /\ pc = "filter"
    /\ \E d \in DonorDocIds :
         /\ OtherwiseEligible(d) /\ GroupRequested(d)
         /\ donors[d].distM > currentRadiusKm * 1000
         /\ d \notin Accepted

(* C4: from one pass to the next the accepted set only grows: the entries   *)
(* accepted so far stay, in place, and no donor id is present twice.        *)
C4_MonotonicAccumulation ==
    [][ /\ IsPrefix(MapKeys(matchingDonors), MapKeys(matchingDonors'))
        /\ NoDup(MapKeys(matchingDonors')) ]_vars

\* donors accepted at two different radii are in the accepted set together
C4_Witness ==
    \E i, j \in 1..Len(matchingDonors) :
        matchingDonors[i].val.radiusKm < matchingDonors[j].val.radiusKm

(* C5: a donor whose blood group is none of the requested groups, up to     *)
(* case and surrounding blanks, is never accepted; and a donor whose group  *)
(* is a requested group up to case and surrounding blanks is accepted by a  *)
(* pass that reaches it, when it meets the other conditions.                *)
C5_GroupEligibility ==
    /\ \A d \in Accepted : GroupRequested(d)
    /\ (pc = "search" /\ iterations > 0 /\ MapSize(matchingDonors) < targetDonorCount)
         => \A d \in DonorDocIds :
              (/\ GroupRequested(d)
               /\ OtherwiseEligible(d)
               /\ donors[d].distM <= LastFullRadiusKm * 1000) => d \in Accepted

\* a donor is accepted whose group is written differently from every
\* requested group, and a donor of another group within reach is left out
C5_Witness ==
    /\ \E d \in Accepted :
         \A i \in 1..Len(request.bloodGroup) :
             donors[d].bloodGroup # request.bloodGroup[i]
    /\ \E d \in DonorDocIds \ Accepted :
         /\ ~GroupRequested(d)
         /\ OtherwiseEligible(d)
         /\ donors[d].distM <= LastFullRadiusKm * 1000

\* ceil((50 - 2) / 2) + 1
ClaimedPasses == (50 - 2 + 1) \div 2 + 1

(* C6: the search runs at most 25 passes, at the radii 2, 4, ..., 50; after *)
(* the 25th the loop condition is false and the search returns.             *)
C6_AtMost25Passes ==
    /\ iterations <= ClaimedPasses
    /\ (pc = "search" /\ LoopCondition) =>
          /\ iterations < ClaimedPasses
          /\ currentRadiusKm = 2 + 2 * iterations
          /\ currentRadiusKm <= 50

\* a search that ran all 25 passes and returned
C6_Witness == SearchReturned /\ iterations = ClaimedPasses

(* C7: when the search returns, the exhausted flag is set exactly when      *)
(* fewer donors than the target were accepted, and then the pass at the     *)
(* ceiling radius 50 has run; it is clear when the target was met.          *)
C7_ExhaustedFlag ==
    SearchReturned =>
        /\ expandedToMax <=> (MapSize(matchingDonors) < targetDonorCount)
        /\ expandedToMax => (currentRadiusKm > 50 /\ iterations = ClaimedPasses)
        /\ ~expandedToMax => currentRadiusKm <= 50

\* no donor was eligible up to the ceiling: empty set, flag set
C7_Witness ==
    SearchReturned /\ MapSize(matchingDonors) = 0 /\ expandedToMax

\* the filter call failed or its answer is no list
FailedOrMalformed(outcome) ==
    \/ outcome.threw
    \/ outcome.status # 200
    \/ outcome.reply = NoReply
    \/ outcome.reply \notin { Stringify(l) : l \in IdLists }

(* C8: for every failing or malformed filter outcome the donor set handed   *)
(* to dispatch and persistence is the validated set of the search: the same *)
(* donors, the same count, the same ids.                                    *)
C8_FilterFailOpen ==
    (FilterRan /\ FailedOrMalformed(filterOutcome)) =>
        filteredMatchingDonors = matchingDonors

(* C9: when the reply parses to a list L, the filtered set holds validated  *)
(* donors only, and the donors it holds are exactly those validated donors  *)
(* whose id is in L; an id of L that no validated donor has adds nothing.   *)
C9_FilteredSubset ==
    \A l \in IdLists :
        (FilterRan /\ ~filterOutcome.threw /\ filterOutcome.status = 200
           /\ filterOutcome.reply = Stringify(l)) =>
            /\ \A i \in 1..Len(filteredMatchingDonors) :
                 /\ filteredMatchingDonors[i].val \in Range(MapValues(matchingDonors))
                 /\ filteredMatchingDonors[i].key = filteredMatchingDonors[i].val.uid
            /\ Range(MapKeys(filteredMatchingDonors))
                 = Range(DonorUids(matchingDonors)) \cap Range(l)
            /\ NoDup(MapKeys(filteredMatchingDonors))

\* the list names a validated donor and an id no validated donor has, and
\* leaves out another validated donor
C9_Witness ==
    /\ FilterRan /\ ~filterOutcome.threw /\ filterOutcome.status = 200
    /\ \E l \in IdLists :
         /\ filterOutcome.reply = Stringify(l)
         /\ Range(l) \cap Range(DonorUids(matchingDonors)) # {}
         /\ Range(l) \ Range(DonorUids(matchingDonors)) # {}
         /\ Range(DonorUids(matchingDonors)) \ Range(l) # {}
    /\ MapSize(filteredMatchingDonors) > 0

(* C10: for an update event in which every id of the current matchedDonors  *)
(* list is in the previous list, onMatchedDonorAdded sends no push and      *)
(* writes no match record and no message record.                            *)
C10_NoAddedIdNoEffect ==
    (Ids(evAfter) \subseteq Ids(evBefore)) =>
        /\ pushes = << >>
        /\ matches = {}
        /\ donorMessages = << >>
        /\ userMessages = << >>

\* the handler returned on an event whose list was reordered or shrunk
C10_Witness ==
    /\ pc = "done"
    /\ evBefore.isArray /\ evAfter.isArray
    /\ evAfter.items # << >>
    /\ evAfter # evBefore
    /\ Ids(evAfter) \subseteq Ids(evBefore)

\* the ids added by the update event, a list that is absent counting as empty
AddedIds == Ids(evAfter) \ Ids(evBefore)

\* the donor-confirmed pushes sent for a donor
ConfirmedPushes(id) ==
    { i \in 1..Len(pushes) : pushes[i].type = "DONOR_MATCHED" /\ pushes[i].donorId = id }

(***************************************************************************)
(* C11: when the same update event, with at least one added id, has been   *)
(* delivered two or more times, the pushes, the match records and the      *)
(* message records are those the first delivery left: later deliveries     *)
(* send and add nothing.                                                   *)
(***************************************************************************)
C11_ReplayIsNoOp ==
    (deliveries >= 2 /\ AddedIds # {} /\ pc \in { "done", "rejected" }) =>
        /\ pushes = afterFirst.pushes
        /\ matches = afterFirst.matches
        /\ donorMessages = afterFirst.donorMessages

(***************************************************************************)
(* C12: when the handler has ended for an update event, every id of the    *)
(* current matchedDonors list that the previous list (absent counting as   *)
(* empty) did not hold has one donor-confirmed push and one match record.  *)
(***************************************************************************)
C12_EveryAddedIdConfirmed ==
    (pc = "done" /\ deliveries = 1) =>
        \A id \in AddedIds :
            /\ Cardinality(ConfirmedPushes(id)) = 1
            /\ \E m \in matches : m.uid = id /\ m.requestId = RequestId

(***************************************************************************)
(* C16: a rejected push-gateway call never fails the invocation and never  *)
(* prevents the record writes of the event: every donor whose push was     *)
(* attempted has its match record and its message record once the          *)
(* invocation has ended.                                                   *)
(***************************************************************************)
C16_PushFailureIsolated ==
    /\ pc # "rejected"
    /\ (pc = "done" /\ evWrite = UpdateEvent) =>
          \A id \in ConfirmIds :
              ConfirmedPushes(id) # {} =>
                  /\ \E m \in matches : m.uid = id /\ m.requestId = RequestId
                  /\ id \in Range(donorMessages)

\* the users some push of the given type is addressed to
Contacted(type) ==
    { u \in DOMAIN users :
        /\ users[u].exists
        /\ users[u].fcmToken # NoToken
        /\ \E i \in 1..Len(pushes) :
              /\ pushes[i].type = type
              /\ \E j \in 1..Len(pushes[i].tokens) :
                    pushes[i].tokens[j] = users[u].fcmToken }

\* the users the before snapshot of the deleted request lists
Listed == { request.foundDonors.items[i] : i \in 1..Len(request.foundDonors.items) }

\* the users that own a profile with a device token
Reachable == { u \in DOMAIN users : users[u].exists /\ users[u].fcmToken # NoToken }

(***************************************************************************)
(* C13: when the handler has ended for the deletion of a request, the      *)
(* users the cancellation push is addressed to are exactly the listed      *)
(* users that own a device token: every such listed user is contacted, no  *)
(* user outside the list is, and one push call carries them all.           *)
(***************************************************************************)
C13_CancellationAudience ==
    (pc \in { "done", "rejected" } /\ evWrite = DeleteEvent) =>
        /\ Contacted("REQUEST_CANCELLED") = Listed \cap Reachable
        /\ Len(pushes) <= 1
        /\ \A i \in 1..Len(pushes) : pushes[i].type = "REQUEST_CANCELLED"

\* a request listing a, b and c, all with tokens, was deleted and the push sent
C13_Witness ==
    /\ pc = "done"
    /\ evWrite = DeleteEvent
    /\ request.foundDonors = ArrayOf(<< "a", "b", "c" >>)
    /\ { "a", "b", "c", "d" } \subseteq Reachable
    /\ Len(pushes) = 1
    /\ pushes[1].tokens = << "tok_a", "tok_b", "tok_c" >>

(***************************************************************************)
(* C14: the deletion handler sends a push only for an event whose before   *)
(* snapshot exists and whose after snapshot does not, and only when the    *)
(* before snapshot's foundDonors list is non-empty; it never writes to     *)
(* the request, the message records or the match records.                  *)
(***************************************************************************)
C14_OnlyOnDeletion ==
    [][ /\ (pushes' # pushes =>
              /\ evWrite.beforeExists /\ ~evWrite.afterExists
              /\ request.foundDonors.isArray
              /\ request.foundDonors.items # << >>)
        /\ request' = request
        /\ userMessages' = userMessages
        /\ donorMessages' = donorMessages
        /\ matches' = matches
        /\ users' = users /\ donors' = donors ]_vars

\* the handler ended silently on an update of a request that lists donors
C14_Witness ==
    /\ pc = "done"
    /\ evWrite = UpdateEvent
    /\ request.foundDonors = ArrayOf(<< "a", "c" >>)
    /\ { "a", "c" } \subseteq Reachable
    /\ pushes = << >>

(***************************************************************************)
(* C15: when the creation handler has ended because the provider document  *)
(* is missing or a store read failed, it has sent no push, written no      *)
(* message record and left the request without foundDonors, as it was      *)
(* when the event was delivered.                                           *)
(***************************************************************************)
C15_AbortWritesNothing ==
    (pc = "done" /\ (~providerExists \/ ReadFailed)) =>
        /\ pushes = << >>
        /\ userMessages = << >>
        /\ request.foundDonors = NotArray

\* a read failed during the search of a request whose provider exists
C15_Witness ==
    /\ pc = "done"
    /\ providerExists
    /\ ReadFailed
    /\ \E d \in DOMAIN donors : donors[d].distM <= 2000 /\ donors[d].bloodGroup = OPos

RecordsOf(messages, uid) == { i \in 1..Len(messages) : messages[i] = uid }

NewMatchTokenLists ==
    { pushes[i].tokens : i \in { j \in 1..Len(pushes) : pushes[j].type = "NEW_MATCH" } }

OutcomeFound ==
    /\ request.foundDonors.isArray
    /\ request.foundDonors.items # << >>
    /\ NewMatchTokenLists # {}
    /\ userMessages # << >>

\* 'not_found': no donor was selected, notified or persisted
OutcomeNotFound ==
    /\ request.foundDonors = NotArray
    /\ NewMatchTokenLists = {}
    /\ userMessages = << >>
    /\ MapSize(filteredMatchingDonors) = 0

(***************************************************************************)
(* C20: a creation invocation whose provider exists and whose store reads  *)
(* succeed ends either with a non-empty donor set notified and persisted,  *)
(* or with no donor selected, none notified and nothing persisted.         *)
(***************************************************************************)
C20_FoundOrNotFound ==
    (pc = "done" /\ providerExists /\ ~ReadFailed /\ evWrite = CreateEvent) =>
        (OutcomeFound \/ OutcomeNotFound)

(***************************************************************************)
(* C22: every accepted donor has a geopoint, a uid whose users document    *)
(* exists, the availability flag set and a device token; and a candidate   *)
(* that fails one of these does not end the search: while the target is    *)
(* not met, every candidate within the radius last examined that meets     *)
(* all conditions is accepted.                                             *)
(***************************************************************************)
C22_AcceptedAreComplete ==
    /\ \A d \in Accepted :
          /\ donors[d].hasGeopoint
          /\ donors[d].uid # NoUid
          /\ users[donors[d].uid].exists
          /\ donors[d].isAvailable
          /\ users[donors[d].uid].fcmToken # NoToken
    /\ (pc = "search" /\ iterations > 0 /\ MapSize(matchingDonors) < targetDonorCount
          /\ \E x \in DOMAIN donors : ~OtherwiseEligible(x))
         => \A d \in DOMAIN donors :
              (/\ GroupRequested(d)
               /\ OtherwiseEligible(d)
               /\ donors[d].distM <= LastFullRadiusKm * 1000) => d \in Accepted

\* a donor was accepted by a pass that also met a candidate without
\* geopoint and a candidate without uid, both left out
C22_Witness ==
    /\ pc = "search"
    /\ \E i \in 1..Len(matchingDonors) : matchingDonors[i].val.radiusKm >= 4
    /\ \E x \in DOMAIN donors \ Accepted : ~donors[x].hasGeopoint
    /\ \E y \in DOMAIN donors \ Accepted :
          donors[y].hasGeopoint /\ donors[y].uid = NoUid /\ donors[y].distM <= 4000

(***************************************************************************)
(* C23: when the search returns, the radius it returns is the radius of    *)
(* the last pass that ran: one of 2, 4, ..., 50, never above the ceiling.  *)
(***************************************************************************)
C23_ReturnedRadius ==
    SearchReturned =>
        /\ currentRadiusKm \in { 2 * k : k \in 1..25 }
        /\ currentRadiusKm <= 50
        /\ currentRadiusKm = 2 * iterations

(***************************************************************************)
(* C24: once the handler has computed it, the target donor count is the    *)
(* units requested clamped to 3..5: 3 for units up to 3 (0, absent and     *)
(* negative values included), the units between 3 and 5, 5 from 5 on.      *)
(***************************************************************************)
C24_TargetIsClamp ==
    currentRadiusKm > 0 =>
        LET units == request.unitsRequested IN
        targetDonorCount = IF units <= 3 THEN 3 ELSE IF units >= 5 THEN 5 ELSE units

\* the search runs for a request of more than 5 units
C24_Witness ==
    /\ pc = "search"
    /\ iterations > 0
    /\ request.unitsRequested = 7
    /\ targetDonorCount = 5

\* the donor-confirmed pushes
DonorMatchedPushes == { i \in 1..Len(pushes) : pushes[i].type = "DONOR_MATCHED" }

(***************************************************************************)
(* C25: every donor-confirmed push shows the donor's daytime address when  *)
(* the hour read for it is one of 6..17, and the nighttime address at      *)
(* every other hour of 0..23: hour 6 is day, hour 18 is night.             *)
(***************************************************************************)
C25_AddressByHour ==
    \A i \in DonorMatchedPushes :
        /\ pushes[i].hour \in 0..23
        /\ pushes[i].area = "daytimeAddress" <=> pushes[i].hour \in 6..17
        /\ pushes[i].area = "nighttimeAddress" <=> pushes[i].hour \notin 6..17

\* one invocation confirmed a donor at hour 17 and the next donor at hour 18
C25_Witness ==
    /\ pc = "done"
    /\ \E i, j \in DonorMatchedPushes :
          /\ pushes[i].hour = 17 /\ pushes[i].area = "daytimeAddress"
          /\ pushes[j].hour = 18 /\ pushes[j].area = "nighttimeAddress"

\* the match records of a donor for the request
MatchRecords(id) == { m \in matches : m.uid = id /\ m.requestId = RequestId }

(***************************************************************************)
(* C26: after any sequence of update events of a request, redelivered      *)
(* events and ids removed and added again included, there is at most one   *)
(* match record for the request and a donor, and only donors that some     *)
(* update event added have one.                                            *)
(***************************************************************************)
C26_OneMatchPerPair ==
    /\ \A id \in ConfirmIds : Cardinality(MatchRecords(id)) <= 1
    /\ \A m \in matches : m.uid \in everAdded

\* a donor was confirmed, removed, added again and confirmed again, the
\* last event delivered twice
C26_Witness ==
    /\ events = 3
    /\ deliveries = 2
    /\ pc = "done"
    /\ evBefore = ArrayOf(<< >>)
    /\ evAfter = ArrayOf(<< "u1" >>)
    /\ Cardinality(ConfirmedPushes("u1")) >= 3
    /\ MatchRecords("u1") # {}

(***************************************************************************)
(* C27: at every moment of the search the number of accepted donors is at  *)
(* most the target count, hence at most 5, also when more eligible donors  *)
(* lie within the radius of the pass.                                      *)
(***************************************************************************)
C27_AtMostTarget ==
    currentRadiusKm > 0 =>
        /\ Len(matchingDonors) <= targetDonorCount
        /\ Len(matchingDonors) <= 5

\* the target is met and an eligible donor within the radius was left out
C27_Witness ==
    /\ pc = "filter"
    /\ Len(matchingDonors) = targetDonorCount
    /\ \E d \in DOMAIN donors \ Accepted :
          /\ GroupRequested(d)
          /\ OtherwiseEligible(d)
          /\ donors[d].distM <= currentRadiusKm * 1000

\* the device tokens of the donors' profiles
DonorTokens == { users[u].fcmToken : u \in DOMAIN users } \ { NoToken }

(***************************************************************************)
(* C29: when the creation handler has ended after a search that found      *)
(* nobody, or after the filter left nobody of a non-empty set, no push     *)
(* went to a donor, no message record was written and the request is as    *)
(* it was; at most one no-donors-found push went to the requester.         *)
(***************************************************************************)
C29_EmptyResultFrame ==
    (pc = "done" /\ providerExists /\ ~ReadFailed /\ evWrite = CreateEvent
       /\ Len(filteredMatchingDonors) = 0) =>
        /\ userMessages = << >>
        /\ request.foundDonors = NotArray
        /\ Len(pushes) <= 1
        /\ \A i \in 1..Len(pushes) :
              /\ pushes[i].type = "NO_DONORS_FOUND"
              /\ pushes[i].tokens = << "tok_requester" >>
              /\ Range(pushes[i].tokens) \cap DonorTokens = {}

\* the filter left nobody of a non-empty validated set, and the requester
\* was told
C29_Witness ==
    /\ pc = "done"
    /\ ~ReadFailed
    /\ Len(matchingDonors) > 0
    /\ filterOutcome.status = 200
    /\ Len(filteredMatchingDonors) = 0
    /\ Len(pushes) = 1

\* the ids line 582 hands to updateRequestWithFoundDonors
HandedToFoundDonors == MapKeys(filteredMatchingDonors)

DiscInOrder(radiusKm) ==
    CHOOSE docs \in Orders({ d \in DOMAIN donors :
                               donors[d].hasGeopoint /\ donors[d].distM <= radiusKm * 1000 }) :
        TRUE

\* what a search yields when it runs alone on the store: the passes at 2,
\* 4, ... while the radius is at most 50 and the target is not met
RECURSIVE SoloLoop(_, _, _, _, _)
SoloLoop(m, radiusKm, flag, groups, target) ==
    IF radiusKm > 50 \/ Len(m) >= target
    THEN [ accepted |-> Range(MapKeys(m)), expandedToMax |-> flag,
           currentRadiusKm |-> radiusKm ]
    ELSE LET pass == RunPass(DiscInOrder(radiusKm), m, radiusKm, groups, target).m IN
         IF Len(pass) < target
         THEN SoloLoop(pass, radiusKm + 2, flag \/ radiusKm + 2 > 50, groups, target)
         ELSE SoloLoop(pass, radiusKm, flag, groups, target)

SoloSearch(req) ==
    SoloLoop(<< >>, 2, FALSE, StandardizedRequestedGroups(req.bloodGroup),
             IF req.unitsRequested <= 3 THEN 3
             ELSE IF req.unitsRequested >= 5 THEN 5 ELSE req.unitsRequested)

(***************************************************************************)
(* C21: of two creation invocations running side by side, each returns     *)
(* from its search with the accepted set, the exhausted flag and the       *)
(* radius it yields alone on the same store, under every interleaving;     *)
(* and each request's foundDonors is absent or the ids of its own set.     *)
(***************************************************************************)
C21_NoSharedState ==
    /\ (SearchReturned /\ other.pc # "none") =>
          [ accepted |-> Accepted, expandedToMax |-> expandedToMax,
            currentRadiusKm |-> currentRadiusKm ] = SoloSearch(request)
    /\ other.pc \in { "filter", "noDonor", "done" } =>
          [ accepted |-> Range(MapKeys(other.matchingDonors)),
            expandedToMax |-> other.expandedToMax,
            currentRadiusKm |-> other.currentRadiusKm ] = SoloSearch(other.request)
    /\ request.foundDonors \in { NotArray, ArrayOf(MapKeys(filteredMatchingDonors)) }
    /\ other.request.foundDonors
          \in { NotArray, ArrayOf(MapKeys(other.filteredMatchingDonors)) }

\* both searches have returned, for requests of different groups, after
\* passes of the two had alternated
C21_Witness ==
    /\ SearchReturned
    /\ other.pc = "done"
    /\ request.bloodGroup # other.request.bloodGroup
    /\ Accepted # {}
    /\ other.matchingDonors # << >>
    /\ Accepted \cap Range(MapKeys(other.matchingDonors)) = {}

\* the tokens the cancellation pushes were addressed to
CancelledTokens ==
    UNION { Range(pushes[i].tokens) :
              i \in { j \in 1..Len(pushes) : pushes[j].type = "REQUEST_CANCELLED" } }

MessageRecords(id) ==
    { i \in 1..Len(donorMessages) : donorMessages[i] = id }

(***************************************************************************)
(* C31: within one invocation of onMatchedDonorAdded an added id is        *)
(* processed at most once: for each id the requester gets at most one      *)
(* donor-confirmed push and the donor at most one message record, even     *)
(* when the current matchedDonors list holds the id several times.         *)
(***************************************************************************)
C31_AddedIdOnce ==
    (deliveries = 1 /\ events = 1) =>
        \A id \in ConfirmIds :
            /\ Cardinality(ConfirmedPushes(id)) <= 1
            /\ Cardinality(MessageRecords(id)) <= 1

\* the update event being handled is the write of foundDonors: the before
\* snapshot differs from the request in that field
NotifiedListWritten ==
    /\ events >= 1
    /\ evWrite = UpdateEvent
    /\ other.request.foundDonors # request.foundDonors

(***************************************************************************)
(* C32: no step either handler takes for the update event of the write of  *)
(* foundDonors sends a push, writes a match record or a message record, or *)
(* writes the request again: the event is a no-op for onMatchedDonorAdded  *)
(* and onBloodRequestDeleted and produces no further event.                *)
(***************************************************************************)
C32_NotifiedWriteIsNoOp ==
    [][ (NotifiedListWritten /\ events' = events) =>
            /\ pushes' = pushes
            /\ matches' = matches
            /\ donorMessages' = donorMessages
            /\ userMessages' = userMessages
            /\ request' = request ]_vars

\* both handlers have returned for a write of foundDonors onto a request
\* that lists confirmed donors and had a notified list before
C32_Witness ==
    /\ NotifiedListWritten
    /\ HandlersReturned
    /\ deliveries >= 2
    /\ evAfter.isArray /\ evAfter.items # << >>
    /\ other.request.foundDonors.isArray
    /\ matches # {}

====
